---- MODULE Spec2Model ----
(***************************************************************************)
(* Workflow execution orchestrator of workflow-automation-backend.         *)
(*                                                                         *)
(* Three operating-system processes share one database and one Redis:      *)
(*   - the REST server (api/rest/workflows.py), whose handlers are the     *)
(*     DatabaseService writes on workflow and task definitions;            *)
(*   - the gRPC server (api/grpc/execution_service.py), one asyncio event  *)
(*     loop running ExecuteWorkflow, GetWorkflowStatus and, for the local  *)
(*     and Ray variants, the backend coroutines;                           *)
(*   - the RQ worker (worker.py), running process_workflow.                *)
(* Code of the event loop runs without interleaving of other event-loop    *)
(* code between two awaits (variable loop); the other processes run in     *)
(* parallel with it.                                                       *)
(***************************************************************************)
EXTENDS Integers, Sequences, FiniteSets, TLC

(* ------------------------------ bounds -------------------------------- *)
MaxWorkflows == 1
MaxExecutions == 2
MaxTasks == 3
MaxFaults == 1
MaxStamps == 2
MaxNames == 2
MaxSubmits == 12
max_workers == 10

WfIds == 1..MaxWorkflows
ExecIds == 1..MaxExecutions
\* The scopes of list_executions: a workflow id, or 0 for 'all'.
ListScopes == {0} \cup WfIds

\* Task payloads the REST clients post (TaskCreate: name, order,
\* execution_type, parameters).  execution_type "null" is an explicit JSON
\* null; duration "bad" is a parameters["duration"] that makes the sleep of
\* every backend raise (a non-number), "ok" one that sleeps and returns.
TaskInputs ==
    { [name |-> "s1", order |-> 1, execution_type |-> "sync",  duration |-> "ok"],
      [name |-> "a2", order |-> 2, execution_type |-> "async", duration |-> "ok"],
      [name |-> "s3", order |-> 3, execution_type |-> "sync",  duration |-> "ok"],
      [name |-> "f2", order |-> 2, execution_type |-> "sync",  duration |-> "bad"],
      [name |-> "n1", order |-> 1, execution_type |-> "null",  duration |-> "ok"],
      [name |-> "b3", order |-> 3, execution_type |-> "async", duration |-> "bad"] }

(* ------------------------------ state --------------------------------- *)
VARIABLES
    use_rq, use_ray,   \* WorkflowExecutionService.__init__ flags
    quota,             \* how many executions the clients' requests create at most
    workflows,         \* ids of the rows of table workflow
    names,             \* names[w]: how often the row of workflow w was updated
    nextWf,            \* next workflow id of the database sequence
    tasks,             \* tasks[w]: rows of table task with workflow_id = w
    executions,        \* executions[e]: row of table workflowexecution
    nextExec,          \* next execution id of the database sequence
    wfCache,           \* Redis key workflow:{w}            (<<>> absent, <<v>> present)
    wtCache,           \* Redis key workflow:{w}:with_tasks
    exCache,           \* Redis key execution:{e}
    listCache,         \* scopes with a cached page executions:list:{scope}:*
    call,              \* the ExecuteWorkflow handler in flight
    last,              \* the last response ExecuteWorkflow gave its caller
    answer,            \* the last response GetWorkflowStatus gave its caller
    ret,               \* how the last direct update_execution_status call ended
    got,               \* the last answer of GET /workflows/{id}
    inflight,          \* inflight[e]: the row a get_execution read and has not cached yet
    run,               \* run[e]: the backend run launched for execution e
    queue,             \* RQ queue: execution ids of the enqueued jobs
    loop,              \* what the gRPC server's event loop is running
    started,           \* started[e]: tasks of the run, in dispatch order
    begun,             \* begun[e]: handed-off tasks whose unit of work has begun to run
    ended,             \* ended[e]: tasks of the run whose unit of work is over
    pool,              \* the ThreadPoolExecutor of one process_workflow job
    faults             \* infrastructure faults still to be injected

vars == << use_rq, use_ray, quota, begun, pool, workflows, names, nextWf, tasks, executions, nextExec,
           wfCache, wtCache, exCache, listCache, call, last, answer, ret, got,
           inflight, run, queue, loop, started, ended, faults >>

\* The execution ids the clients name in their requests.
Known == 1..quota

Terminal == {"completed", "failed"}

NoRow == [exists |-> FALSE, workflow_id |-> 0, status |-> "none", started_at |-> 0,
          completed_at |-> 0]
NoCall == [pc |-> "idle", wf |-> 0, id |-> 0, present |-> FALSE]
NoResponse == [code |-> "none", wf |-> 0, id |-> 0, status |-> "none",
               present |-> FALSE, still |-> FALSE, created |-> FALSE,
               launched |-> FALSE, persisted |-> "none"]
NoAnswer == [code |-> "none", id |-> 0, status |-> "none", completed_at |-> 0,
             stored |-> FALSE]
NoRet == [id |-> 0, status |-> "none", raised |-> FALSE, lists |-> {}, turn |-> 0]
NoGot == [id |-> 0, found |-> FALSE, hit |-> FALSE, name |-> 0, turn |-> 0]
\* ThreadPoolExecutor(max_workers=10) as created: no thread, nothing queued.
\* polling: threads about to look at the work queue; waiting: threads blocked
\* on the empty queue; busy: threads inside execute_task_background; idle:
\* the executor's idle semaphore; submitted: ASYNC tasks the driver has passed.
NoPool == [polling |-> 0, waiting |-> 0, busy |-> 0, queued |-> 0, idle |-> 0,
           submitted |-> 0]
NoRun == [backend |-> "none", pc |-> "none", wf |-> 0, tasks |-> << >>, i |-> 0]
Idle == [owner |-> "idle", id |-> 0]
Rpc == [owner |-> "rpc", id |-> 0]
Running(e) == [owner |-> "run", id |-> e]

(* --------------------------- db.models -------------------------------- *)
Range(s) == { s[k] : k \in 1..Len(s) }

\* Workflow.tasks is loaded ORDER BY Task.order; rows with equal order come
\* in whatever order the database returns them.
IsSortedByOrder(s) == \A i, j \in 1..Len(s) : i < j => s[i].order <= s[j].order

Orderings(S) ==
    { s \in [1..Cardinality(S) -> S] : \A x \in S : \E i \in 1..Cardinality(S) : s[i] = x }

\* A relationship without order_by: the tasks of w in any order.
\* C1 needs the ordering: it fails with this in place of WorkflowTasks.
WorkflowTasksUnordered(w) == Orderings(tasks[w])

WorkflowTasks(w) == { s \in Orderings(tasks[w]) : IsSortedByOrder(s) }

\* A driver that awaits no task.  C2 fails with this in place of IsSync.
NeverSync(t) == FALSE

\* What the loops of the three backends test: task.execution_type == TaskType.SYNC
IsSync(t) == t.execution_type = "sync"

\* A driver that never sees a failure.  C4 fails with this in place of TaskFails.
NeverFails(t) == FALSE

\* The unit of work of every backend is a sleep on parameters["duration"].
TaskFails(t) == t.duration = "bad"

(* ------------------------ core.database_service ----------------------- *)
Obj(ts) == [kind |-> "obj", tasks |-> ts]
Dict(ts) == [kind |-> "dict", tasks |-> ts]
Missing == [kind |-> "none", tasks |-> << >>]

\* get_workflow: the cached JSON dict on a hit, else the row (cached when
\* found: its tasks, loaded with it, and its columns, of which the model keeps
\* the name).
get_workflow(w, wfc) ==
    IF wfc[w] # << >>
    THEN { [res |-> Dict(wfc[w][1]), wfc |-> wfc] }
    ELSE IF w \in workflows
         THEN { [res |-> Obj(ts), wfc |-> [wfc EXCEPT ![w] = << ts, names[w] >>]] :
                  ts \in WorkflowTasks(w) }
         ELSE { [res |-> Missing, wfc |-> wfc] }

\* Workflow.model_validate(cached_data): a Workflow built from the cached
\* dict.  The dict carries the serialized task list; whether the validated
\* table model exposes it as .tasks depends on the SQLModel release (the
\* relationship attribute is not a validated field), so both are outcomes.
model_validate(ts) == { ts, << >> }

\* get_workflow_with_tasks: cache hit -> validated Workflow; miss -> whatever
\* get_workflow returns (a Workflow row or the dict cached under workflow:{w}),
\* stored under workflow:{w}:with_tasks when truthy.
get_workflow_with_tasks(w, wfc, wtc) ==
    IF wtc[w] # << >>
    THEN { [res |-> Obj(ts), wfc |-> wfc, wtc |-> wtc] : ts \in model_validate(wtc[w][1]) }
    ELSE { [res |-> o.res, wfc |-> o.wfc,
            wtc |-> IF o.res.kind = "none" THEN wtc
                    ELSE [wtc EXCEPT ![w] = << o.res.tasks >>]] : o \in get_workflow(w, wfc) }

\* A write that leaves the cache alone.  C21 fails with this in place of
\* invalidate_workflow_caches.
KeepWorkflowCaches(w, wfc) == wfc

\* _invalidate_workflow_caches deletes workflow:{w} (and list keys), not
\* workflow:{w}:with_tasks.
invalidate_workflow_caches(w, wfc) == [wfc EXCEPT ![w] = << >>]

\* ... and delete_pattern("executions:list:{w}:*"): the pages of scope w go,
\* those of scope 'all' stay.
invalidate_workflow_lists(w, ls) == ls \ {w}

\* The cached projection of an execution row (_serialize_model of the row).
Projection(row) == [workflow_id |-> row.workflow_id, status |-> row.status,
                    started_at |-> row.started_at, completed_at |-> row.completed_at]

\* A read that writes the cache through on every call.  C22 fails with this
\* in place of get_execution.
RefreshingGet(e, exs, exc) ==
    LET now == IF exs[e].exists THEN << Projection(exs[e]) >> ELSE << >>
    IN [res |-> now, exCache |-> [exc EXCEPT ![e] = now]]

\* get_execution(e): what the cache holds under execution:{e} when it holds
\* something, else the row, which is then cached; nothing when there is no row.
get_execution(e, exs, exc) ==
    IF exc[e] # << >>
    THEN [res |-> exc[e], exCache |-> exc]
    ELSE IF exs[e].exists
         THEN [res |-> << Projection(exs[e]) >>,
               exCache |-> [exc EXCEPT ![e] = << Projection(exs[e]) >>]]
         ELSE [res |-> << >>, exCache |-> exc]

\* completed_at assigned on every status write.  C6 fails with this in place
\* of Stamp.
AlwaysStamp(s, old) == old + 1

\* completed_at = datetime.now() on a terminal status: a fresh timestamp,
\* modelled as the number of times the column was assigned (0 is None).
Stamp(s, old) == IF s \in Terminal THEN old + 1 ELSE old

\* No invalidation at all.  C19 fails with this in place of
\* invalidate_execution_caches.
KeepCaches(e, exc, ls) == [exCache |-> exc, lists |-> ls]

\* _invalidate_execution_caches(workflow_id, execution_id): the key
\* execution:{e} when an execution id is given (e = 0: none), then
\* delete_pattern("executions:list:*"), which takes the pages of every scope
\* (the workflow-scoped delete_pattern that follows finds nothing left).
invalidate_execution_caches(e, exc, ls) ==
    [exCache |-> IF e \in ExecIds THEN [exc EXCEPT ![e] = << >>] ELSE exc,
     lists |-> {}]

\* A status write made with UPDATE ... WHERE workflow_id = ..., which reaches
\* every execution of the workflow.  C37 fails with this in place of
\* update_execution_status.
update_every_execution(e, s, exs, exc, ls, f) ==
    IF exc[e] # << >> \/ ~exs[e].exists
    THEN [raised |-> TRUE, committed |-> FALSE, executions |-> exs, exCache |-> exc,
          lists |-> ls]
    ELSE [raised |-> f # "none", committed |-> TRUE,
          executions |-> [x \in ExecIds |->
                            IF exs[x].exists /\ exs[x].workflow_id = exs[e].workflow_id
                            THEN [exs[x] EXCEPT !.status = s,
                                                !.completed_at = Stamp(s, @)]
                            ELSE exs[x]],
          exCache |-> invalidate_execution_caches(e, exc, ls).exCache,
          lists |-> invalidate_execution_caches(e, exc, ls).lists]

\* update_execution_status(e, s).  get_execution first:
\*   - cache hit: WorkflowExecution.model_validate(cached) is a new transient
\*     object; db.add + commit INSERTs a second row with the same primary key
\*     and raises IntegrityError: nothing is written, nothing invalidated;
\*   - miss and no row: ValueError;
\*   - miss and row: the row is cached, changed, committed, and the key
\*     execution:{e} is deleted again by _invalidate_execution_caches.
\* f is the infrastructure fault injected into this call: "none"; "refresh"
\* (db.refresh or the cache.delete raises after the commit: the entry cached
\* by get_execution stays); "pattern" (delete_pattern raises after the key
\* was deleted).
update_execution_status(e, s, exs, exc, ls, f) ==
    IF exc[e] # << >> \/ ~exs[e].exists
    THEN [raised |-> TRUE, committed |-> FALSE, executions |-> exs, exCache |-> exc,
          lists |-> ls]
    ELSE LET row == [exs[e] EXCEPT !.status = s, !.completed_at = Stamp(s, @)]
             cached == [exc EXCEPT ![e] = << Projection(exs[e]) >>]
             inv == invalidate_execution_caches(e, cached, ls)
         IN [raised |-> f # "none", committed |-> TRUE,
             executions |-> [exs EXCEPT ![e] = row],
             exCache |-> IF f = "refresh" THEN cached ELSE inv.exCache,
             lists |-> IF f = "none" THEN inv.lists ELSE ls]

FaultChoices == IF faults > 0 THEN {"none", "refresh", "pattern"} ELSE {"none"}
Used(f, r) == IF f # "none" /\ r.committed THEN 1 ELSE 0

(* ------------------------------- Init --------------------------------- *)
InitCommon ==
    /\ use_rq \in BOOLEAN
    /\ use_ray \in BOOLEAN
    /\ workflows = {}
    /\ nextWf = 1
    /\ tasks = [w \in WfIds |-> {}]
    /\ executions = [e \in ExecIds |-> NoRow]
    /\ nextExec = 1
    /\ wfCache = [w \in WfIds |-> << >>]
    /\ wtCache = [w \in WfIds |-> << >>]
    /\ exCache = [e \in ExecIds |-> << >>]
    /\ listCache = {}
    /\ call = NoCall
    /\ last = NoResponse
    /\ answer = NoAnswer
    /\ ret = NoRet
    /\ names = [w \in WfIds |-> 0]
    /\ got = NoGot
    /\ inflight = [e \in ExecIds |-> << >>]
    /\ run = [e \in ExecIds |-> NoRun]
    /\ queue = << >>
    /\ loop = Idle
    /\ started = [e \in ExecIds |-> << >>]
    /\ begun = [e \in ExecIds |-> {}]
    /\ ended = [e \in ExecIds |-> {}]
    /\ pool = NoPool

Init == InitCommon /\ faults = 0 /\ quota = 1

FaultInit == InitCommon /\ faults = MaxFaults /\ quota = 1

(* --------------------------- REST handlers ---------------------------- *)
create_workflow ==
    /\ nextWf <= MaxWorkflows
    /\ workflows' = workflows \cup {nextWf}
    /\ nextWf' = nextWf + 1
    /\ UNCHANGED << use_rq, use_ray, quota, begun, pool, inflight, ret, names, got, tasks, executions, nextExec, wfCache, wtCache,
                    exCache, listCache, call, last, answer, run, queue, loop, started, ended, faults >>

TaskCount == Cardinality({ p \in WfIds \X TaskInputs : p[2] \in tasks[p[1]] })

add_task(w, t) ==
    /\ w \in workflows
    /\ t \notin tasks[w]
    /\ TaskCount < MaxTasks
    /\ tasks' = [tasks EXCEPT ![w] = @ \cup {t}]
    /\ wfCache' = invalidate_workflow_caches(w, wfCache)
    /\ listCache' = invalidate_workflow_lists(w, listCache)
    /\ UNCHANGED << use_rq, use_ray, quota, begun, pool, inflight, ret, names, got, workflows, nextWf, executions, nextExec, wtCache,
                    exCache, call, last, answer, run, queue, loop, started, ended, faults >>

\* delete_workflow: the tasks go with the relationship's cascade_delete, the
\* executions with the foreign key's ON DELETE CASCADE.
delete_workflow(w) ==
    /\ w \in workflows
    /\ workflows' = workflows \ {w}
    /\ tasks' = [tasks EXCEPT ![w] = {}]
    /\ executions' = [e \in ExecIds |->
                        IF executions[e].exists /\ executions[e].workflow_id = w
                        THEN NoRow ELSE executions[e]]
    /\ wfCache' = invalidate_workflow_caches(w, wfCache)
    /\ listCache' = invalidate_workflow_lists(w, listCache)
    /\ UNCHANGED << use_rq, use_ray, quota, begun, pool, inflight, ret, names, got, nextWf, nextExec, wtCache, exCache, call, last, answer,
                    run, queue, loop, started, ended, faults >>

(* ------------------------------ Redis --------------------------------- *)
\* Every cache.set carries ttl = 3600: Redis drops the key when it expires.
ExpireWorkflow(w) ==
    /\ wfCache[w] # << >>
    /\ wfCache' = [wfCache EXCEPT ![w] = << >>]
    /\ UNCHANGED << use_rq, use_ray, quota, begun, pool, inflight, ret, names, got, workflows, nextWf, tasks, executions, nextExec,
                    wtCache, exCache, listCache, call, last, answer, run, queue, loop, started, ended, faults >>

ExpireWithTasks(w) ==
    /\ wtCache[w] # << >>
    /\ wtCache' = [wtCache EXCEPT ![w] = << >>]
    /\ UNCHANGED << use_rq, use_ray, quota, begun, pool, inflight, ret, names, got, workflows, nextWf, tasks, executions, nextExec,
                    wfCache, exCache, listCache, call, last, answer, run, queue, loop, started, ended, faults >>

ExpireExecution(e) ==
    /\ exCache[e] # << >>
    /\ exCache' = [exCache EXCEPT ![e] = << >>]
    /\ UNCHANGED << use_rq, use_ray, quota, begun, pool, inflight, ret, names, got, workflows, nextWf, tasks, executions, nextExec,
                    wfCache, wtCache, listCache, call, last, answer, run, queue, loop, started, ended, faults >>

(* ------------------ gRPC: WorkflowExecutionService -------------------- *)
\* context.abort(code) sends the status and raises; a second abort of the
\* same call cannot replace the status already sent.
abort(sent, code) == IF sent = "none" THEN code ELSE sent

\* A branch order that would prefer Ray: if use_ray ... elif use_rq ... else ...
BackendRayFirst == IF use_ray THEN "ray" ELSE IF use_rq THEN "rq" ELSE "local"

\* if use_rq ... elif use_ray ... else ...
Backend == IF use_rq THEN "rq" ELSE IF use_ray THEN "ray" ELSE "local"

\* A response that reports the status read back from the row instead of the
\* constant IN_PROGRESS.  C9 fails with this in place of Response.
ResponseOfPersisted(code, w, id, present, created, launched, persisted) ==
    [code |-> code, wf |-> w, id |-> id,
     status |-> IF code = "OK" THEN persisted ELSE "none",
     present |-> present, still |-> w \in workflows, created |-> created,
     launched |-> launched, persisted |-> persisted]

Response(code, w, id, present, created, launched, persisted) ==
    [code |-> code, wf |-> w, id |-> id,
     status |-> IF code = "OK" THEN "in_progress" ELSE "none",
     present |-> present, still |-> w \in workflows, created |-> created,
     launched |-> launched, persisted |-> persisted]

\* ExecuteWorkflow up to create_execution: get_workflow_with_tasks, abort
\* NOT_FOUND when falsy (the AbortError is caught by `except Exception`, which
\* aborts INTERNAL), else create_execution, whose own get_workflow raises
\* ValueError when it finds nothing (and whose INSERT violates the foreign
\* key when the workflow row is gone).
ExecuteWorkflow(w) ==
    /\ loop = Idle
    /\ call = NoCall
    /\ \E o \in get_workflow_with_tasks(w, wfCache, wtCache) :
       \E c \in get_workflow(w, o.wfc) :
         LET found == o.res.kind # "none"
             creatable == found /\ c.res.kind # "none" /\ w \in workflows
             code == IF found THEN abort("none", "INTERNAL")
                     ELSE abort(abort("none", "NOT_FOUND"), "INTERNAL")
         IN /\ creatable => nextExec <= quota
            /\ wtCache' = o.wtc
            /\ wfCache' = IF found THEN c.wfc ELSE o.wfc
            /\ IF creatable
               THEN /\ executions' = [executions EXCEPT ![nextExec] =
                                        [exists |-> TRUE, workflow_id |-> w,
                                         status |-> "pending", started_at |-> nextExec,
                                         completed_at |-> 0]]
                    /\ nextExec' = nextExec + 1
                    /\ listCache' = invalidate_execution_caches(0, exCache, listCache).lists
                    /\ call' = [pc |-> "created", wf |-> w, id |-> nextExec,
                                present |-> TRUE]
                    /\ loop' = Rpc
                    /\ last' = last
               ELSE /\ last' = Response(code, w, 0, w \in workflows, FALSE, FALSE, "none")
                    /\ UNCHANGED << executions, nextExec, listCache, call, loop >>
    /\ UNCHANGED << use_rq, use_ray, quota, begun, pool, inflight, ret, names, got, workflows, nextWf, tasks, exCache, answer, run,
                    queue, started, ended, faults >>

\* db.update_execution_status(execution_id, WorkflowStatus.IN_PROGRESS)
ExecuteWorkflowUpdate ==
    /\ call.pc = "created"
    /\ \E f \in FaultChoices :
         LET r == update_execution_status(call.id, "in_progress", executions, exCache,
                                             listCache, f)
         IN /\ executions' = r.executions
            /\ exCache' = r.exCache
            /\ listCache' = r.lists
            /\ faults' = faults - Used(f, r)
            /\ IF r.raised
               THEN /\ call' = NoCall
                    /\ loop' = Idle
                    /\ last' = Response(abort("none", "INTERNAL"), call.wf, call.id,
                                        call.present, TRUE, FALSE,
                                        r.executions[call.id].status)
               ELSE /\ call' = [call EXCEPT !.pc = "in_progress"]
                    /\ UNCHANGED << loop, last >>
    /\ UNCHANGED << use_rq, use_ray, quota, begun, pool, inflight, ret, names, got, workflows, nextWf, tasks, nextExec, wfCache,
                    wtCache, answer, run, queue, started, ended >>

\* The launch: rq_executor.execute_workflow (queue.enqueue, which raises when
\* Redis is unreachable) or asyncio.create_task of the backend coroutine.
ExecuteWorkflowLaunch ==
    /\ call.pc = "in_progress"
    /\ \E f \in (IF use_rq /\ faults > 0 THEN {"none", "enqueue"} ELSE {"none"}) :
         IF f = "enqueue"
         THEN /\ faults' = faults - 1
              /\ call' = NoCall
              /\ loop' = Idle
              /\ last' = Response(abort("none", "INTERNAL"), call.wf, call.id,
                                  call.present, TRUE, FALSE, executions[call.id].status)
              /\ UNCHANGED << run, queue >>
         ELSE /\ run' = [run EXCEPT ![call.id] =
                           [backend |-> Backend,
                            pc |-> IF use_rq THEN "queued" ELSE "scheduled",
                            wf |-> call.wf, tasks |-> << >>, i |-> 0]]
              /\ queue' = IF use_rq THEN Append(queue, call.id) ELSE queue
              /\ call' = [call EXCEPT !.pc = "launched"]
              /\ UNCHANGED << loop, last, faults >>
    /\ UNCHANGED << use_rq, use_ray, quota, begun, pool, inflight, ret, names, got, workflows, nextWf, tasks, executions, nextExec,
                    wfCache, wtCache, exCache, listCache, answer, started, ended >>

\* return ExecuteWorkflowResponse(execution_id, status=IN_PROGRESS.value)
ExecuteWorkflowReturn ==
    /\ call.pc = "launched"
    /\ last' = Response("OK", call.wf, call.id, call.present, TRUE, TRUE,
                        executions[call.id].status)
    /\ call' = NoCall
    /\ loop' = Idle
    /\ UNCHANGED << use_rq, use_ray, quota, begun, pool, inflight, ret, names, got, workflows, nextWf, tasks, executions, nextExec,
                    wfCache, wtCache, exCache, listCache, answer, run, queue, started, ended,
                    faults >>

\* GetWorkflowStatus: get_execution, then NOT_FOUND when it is falsy (the
\* AbortError passes through `except Exception`, as in ExecuteWorkflow), else
\* a WorkflowStatusResponse built from what get_execution returned.
GetWorkflowStatus(e) ==
    /\ e \in Known
    /\ loop = Idle
    /\ LET g == get_execution(e, executions, exCache)
       IN /\ exCache' = g.exCache
          /\ answer' = IF g.res = << >>
                       THEN [code |-> abort(abort("none", "NOT_FOUND"), "INTERNAL"),
                             id |-> e, status |-> "none", completed_at |-> 0,
                             stored |-> executions[e].exists]
                       ELSE [code |-> "OK", id |-> e, status |-> g.res[1].status,
                             completed_at |-> g.res[1].completed_at,
                             stored |-> executions[e].exists]
    /\ UNCHANGED << use_rq, use_ray, quota, begun, pool, inflight, ret, names, got, workflows, nextWf, tasks, executions, nextExec,
                    wfCache, wtCache, listCache, call, last, run, queue, loop, started,
                    ended, faults >>

(* ---------------------------- the backends ---------------------------- *)
OnEventLoop(e) == run[e].backend \in {"local", "ray"}

\* update_execution_status(execution_id, s), the last statement a run executes
\* normally.  retry: the call sits inside the try block, so that when it raises
\* the except clause runs next and writes FAILED.  _execute_sync and
\* _execute_with_ray write again through the session whose commit has just
\* failed ("except_rollback" when it was the INSERT that failed);
\* process_workflow opens a new session.
Finish(e, s, retry) ==
    \E f \in FaultChoices :
      LET r == update_execution_status(e, s, executions, exCache, listCache, f)
      IN /\ executions' = r.executions
         /\ exCache' = r.exCache
         /\ listCache' = r.lists
         /\ faults' = faults - Used(f, r)
         /\ IF r.raised /\ retry
            THEN /\ run' = [run EXCEPT ![e].pc =
                              IF OnEventLoop(e) /\ exCache[e] # << >>
                              THEN "except_rollback" ELSE "except"]
                 /\ loop' = IF OnEventLoop(e) THEN Running(e) ELSE loop
            ELSE /\ run' = [run EXCEPT ![e].pc = "done"]
                 /\ loop' = IF OnEventLoop(e) THEN Idle ELSE loop

\* The except clause of a backend: update_execution_status(FAILED).  On a
\* session whose commit failed and that was not rolled back the call either
\* raises at its first use of the session or goes through, depending on the
\* state SQLAlchemy leaves the session in: both are outcomes.
Except(e) ==
    /\ run[e].pc \in {"except", "except_rollback"}
    /\ \E usable \in (IF run[e].pc = "except" THEN {TRUE} ELSE BOOLEAN) :
         IF usable
         THEN Finish(e, "failed", FALSE)
         ELSE /\ run' = [run EXCEPT ![e].pc = "done"]
              /\ loop' = IF OnEventLoop(e) THEN Idle ELSE loop
              /\ UNCHANGED << executions, exCache, listCache, faults >>

\* The head of a backend: get_workflow_with_tasks(workflow_id), then
\*   - nothing found: return (local, Ray) or write FAILED (worker);
\*   - a dict (workflow:{w} was cached, workflow:{w}:with_tasks was not):
\*     workflow.tasks / workflow.id raises AttributeError, FAILED is written;
\*   - a Workflow: iterate workflow.tasks.
Begin(e, writesWhenMissing, retryOnDict) ==
    \E o \in get_workflow_with_tasks(run[e].wf, wfCache, wtCache) :
      /\ wfCache' = o.wfc
      /\ wtCache' = o.wtc
      /\ IF o.res.kind = "obj"
         THEN /\ run' = [run EXCEPT ![e].pc = "loop", ![e].tasks = o.res.tasks, ![e].i = 1]
              /\ loop' = IF OnEventLoop(e) THEN Running(e) ELSE loop
              /\ UNCHANGED << executions, exCache, listCache, faults >>
         ELSE IF o.res.kind = "none" /\ ~writesWhenMissing
              THEN /\ run' = [run EXCEPT ![e].pc = "done"]
                   /\ UNCHANGED << executions, exCache, listCache, faults, loop >>
              ELSE Finish(e, "failed", IF o.res.kind = "none" THEN TRUE ELSE retryOnDict)

\* A driver that would look its task up in the persisted workflow at every
\* pass instead of walking the list it loaded.
DispatchLive(e, yields) ==
    \E s \in WorkflowTasks(run[e].wf) :
        /\ run[e].i <= Len(s)
        /\ LET t == s[run[e].i]
           IN /\ started' = [started EXCEPT ![e] = Append(@, t)]
              /\ IF IsSync(t)
                 THEN /\ run' = [run EXCEPT ![e].pc = "sync"]
                      /\ loop' = IF OnEventLoop(e) /\ yields THEN Idle ELSE loop
                 ELSE /\ run' = [run EXCEPT ![e].i = @ + 1]
                      /\ loop' = loop

\* One pass of `for task in workflow.tasks`: a SYNC task is started and the
\* driver waits for it; any other task is handed off and the loop goes on.
\* yields: whether waiting for this SYNC task gives up the event loop.
Dispatch(e, yields) ==
    LET t == run[e].tasks[run[e].i]
    IN /\ started' = [started EXCEPT ![e] = Append(@, t)]
       /\ IF IsSync(t)
          THEN /\ run' = [run EXCEPT ![e].pc = "sync"]
               /\ loop' = IF OnEventLoop(e) /\ yields THEN Idle ELSE loop
          ELSE /\ run' = [run EXCEPT ![e].i = @ + 1]
               /\ loop' = loop

\* The SYNC task the driver waits for is over: the loop goes on, or the
\* failure reaches the handler that writes FAILED.
Complete(e, retry) ==
    LET t == run[e].tasks[run[e].i]
    IN /\ ended' = [ended EXCEPT ![e] = @ \cup {t}]
       /\ IF TaskFails(t)
          THEN Finish(e, "failed", retry)
          ELSE /\ run' = [run EXCEPT ![e].pc = "loop", ![e].i = @ + 1]
               /\ loop' = IF OnEventLoop(e) THEN Running(e) ELSE loop
               /\ UNCHANGED << executions, exCache, listCache, faults >>

\* A driver that joins the tasks it handed off before it writes COMPLETED.
\* C3 fails with this in place of Succeed.
SucceedAfterJoin(e) ==
    /\ run[e].pc = "loop"
    /\ run[e].i > Len(run[e].tasks)
    /\ Range(started[e]) \subseteq ended[e]
    /\ Finish(e, "completed", TRUE)

\* After the loop: update_execution_status(COMPLETED) inside the try.
Succeed(e) ==
    /\ run[e].pc = "loop"
    /\ run[e].i > Len(run[e].tasks)
    /\ Finish(e, "completed", TRUE)

Unstarted == << use_rq, use_ray, quota, begun, pool, inflight, ret, names, got, workflows, nextWf, tasks, nextExec, call, last, answer,
                queue, started, ended >>
Unmoved == << use_rq, use_ray, quota, begun, pool, inflight, ret, names, got, workflows, nextWf, tasks, nextExec, call, last, answer,
              queue, wfCache, wtCache >>

\* _execute_sync (local variant), one event-loop segment at a time.
execute_sync_begin(e) ==
    /\ run[e].backend = "local" /\ run[e].pc = "scheduled"
    /\ loop = Idle
    /\ Begin(e, FALSE, FALSE)
    /\ UNCHANGED Unstarted

\* await asyncio.sleep(duration) suspends unless the call raises at once.
execute_sync_task(e) ==
    /\ run[e].backend = "local"
    /\ loop = Running(e)
    /\ run[e].pc = "loop" /\ run[e].i <= Len(run[e].tasks)
    /\ Dispatch(e, ~TaskFails(run[e].tasks[run[e].i]))
    /\ UNCHANGED << executions, exCache, listCache, faults, ended >>
    /\ UNCHANGED Unmoved

execute_sync_resume(e) ==
    /\ run[e].backend = "local"
    /\ run[e].pc = "sync"
    /\ loop = IF TaskFails(run[e].tasks[run[e].i]) THEN Running(e) ELSE Idle
    /\ Complete(e, FALSE)
    /\ UNCHANGED started
    /\ UNCHANGED Unmoved

execute_sync_end(e) ==
    /\ run[e].backend = "local"
    /\ loop = Running(e)
    /\ Succeed(e)
    /\ UNCHANGED << started, ended >>
    /\ UNCHANGED Unmoved

execute_sync_except(e) ==
    /\ run[e].backend = "local"
    /\ loop = Running(e)
    /\ Except(e)
    /\ UNCHANGED << started, ended >>
    /\ UNCHANGED Unmoved

\* _execute_with_ray + RayExecutor.execute_workflow.
execute_with_ray_begin(e) ==
    /\ run[e].backend = "ray" /\ run[e].pc = "scheduled"
    /\ loop = Idle
    /\ Begin(e, FALSE, TRUE)
    /\ UNCHANGED Unstarted

\* await asyncio.to_thread(ray.get, execute_task.remote(task)) always suspends.
ray_execute_workflow_task(e) ==
    /\ run[e].backend = "ray"
    /\ loop = Running(e)
    /\ run[e].pc = "loop" /\ run[e].i <= Len(run[e].tasks)
    /\ Dispatch(e, TRUE)
    /\ UNCHANGED << executions, exCache, listCache, faults, ended >>
    /\ UNCHANGED Unmoved

ray_execute_workflow_resume(e) ==
    /\ run[e].backend = "ray"
    /\ run[e].pc = "sync"
    /\ loop = Idle
    /\ Complete(e, TRUE)
    /\ UNCHANGED started
    /\ UNCHANGED Unmoved

execute_with_ray_end(e) ==
    /\ run[e].backend = "ray"
    /\ loop = Running(e)
    /\ Succeed(e)
    /\ UNCHANGED << started, ended >>
    /\ UNCHANGED Unmoved

execute_with_ray_except(e) ==
    /\ run[e].backend = "ray"
    /\ loop = Running(e)
    /\ Except(e)
    /\ UNCHANGED << started, ended >>
    /\ UNCHANGED Unmoved

\* process_workflow, run by the RQ worker: one job at a time, in queue order.
WorkerBusy ==
    \E e \in ExecIds : run[e].backend = "rq" /\ run[e].pc \in {"loop", "sync", "except", "done"}

process_workflow_begin(e) ==
    /\ run[e].backend = "rq" /\ run[e].pc = "queued"
    /\ queue # << >> /\ Head(queue) = e
    /\ ~WorkerBusy
    /\ queue' = Tail(queue)
    /\ Begin(e, TRUE, FALSE)
    /\ UNCHANGED << use_rq, use_ray, quota, begun, pool, inflight, ret, names, got, workflows, nextWf, tasks, nextExec, call, last, answer,
                    started, ended >>

process_workflow_task(e) ==
    /\ run[e].backend = "rq"
    /\ run[e].pc = "loop" /\ run[e].i <= Len(run[e].tasks)
    /\ Dispatch(e, FALSE)
    /\ UNCHANGED << executions, exCache, listCache, faults, ended >>
    /\ UNCHANGED Unmoved

process_workflow_resume(e) ==
    /\ run[e].backend = "rq"
    /\ run[e].pc = "sync"
    /\ Complete(e, FALSE)
    /\ UNCHANGED started
    /\ UNCHANGED Unmoved

process_workflow_end(e) ==
    /\ run[e].backend = "rq"
    /\ Succeed(e)
    /\ UNCHANGED << started, ended >>
    /\ UNCHANGED Unmoved

process_workflow_except(e) ==
    /\ run[e].backend = "rq"
    /\ Except(e)
    /\ UNCHANGED << started, ended >>
    /\ UNCHANGED Unmoved

\* process_workflow has returned: the work horse the Worker forked for the job
\* exits (os._exit), and the threads of the job's ThreadPoolExecutor end with
\* the process, whatever they were doing.
work_horse_exit(e) ==
    /\ run[e].backend = "rq"
    /\ run[e].pc = "done"
    /\ run' = [run EXCEPT ![e].pc = "exited"]
    /\ UNCHANGED << use_rq, use_ray, quota, begun, pool, inflight, ret, names, got, workflows, nextWf, tasks, executions, nextExec,
                    wfCache, wtCache, exCache, listCache, call, last, answer, queue, loop,
                    started, ended, faults >>

\* The unit of work of a handed-off task (_execute_async_task,
\* execute_task_background, execute_task.remote) is over; its failure is
\* caught or dropped where it runs.  The local one runs on the event loop.
async_task_ends(e, t) ==
    /\ t \in Range(started[e])
    /\ ~IsSync(t)
    /\ t \notin ended[e]
    /\ run[e].backend = "local" => loop = Idle
    /\ run[e].backend = "rq" => run[e].pc # "exited"
    /\ ended' = [ended EXCEPT ![e] = @ \cup {t}]
    /\ UNCHANGED << use_rq, use_ray, quota, begun, pool, inflight, ret, names, got, workflows, nextWf, tasks, executions, nextExec,
                    wfCache, wtCache, exCache, listCache, call, last, answer, run, queue, loop, started,
                    faults >>

\* The unit of work of a handed-off task begins to run.  The local one is an
\* asyncio task: created by create_task, it runs its first statement when the
\* event loop next picks it, which needs the loop to be free.
async_task_begins(e, t) ==
    /\ t \in Range(started[e])
    /\ ~IsSync(t)
    /\ t \notin begun[e]
    /\ run[e].backend = "local" => loop = Idle
    /\ run[e].backend = "rq" => run[e].pc # "exited"
    /\ begun' = [begun EXCEPT ![e] = @ \cup {t}]
    /\ UNCHANGED << use_rq, use_ray, quota, pool, inflight, ret, names, got, workflows, nextWf,
                    tasks, executions, nextExec, wfCache, wtCache, exCache, listCache,
                    call, last, answer, run, queue, loop, started, ended, faults >>

\* ... and is over, having begun.
async_task_finishes(e, t) == t \in begun[e] /\ async_task_ends(e, t)

(* ------------- process_workflow: the pool of ASYNC tasks -------------- *)
Others == << use_rq, use_ray, quota, begun, inflight, ret, names, got, workflows, nextWf,
            tasks, executions, nextExec, wfCache, wtCache, exCache, listCache, call,
            last, answer, run, queue, loop, started, ended, faults >>

num_threads(p) == p.polling + p.waiting + p.busy

\* A pool that would start a thread for every work item.
SpawnPerSubmit(p) == [p EXCEPT !.polling = @ + 1]

\* ThreadPoolExecutor._adjust_thread_count, called by submit: a thread that
\* waits on the queue is counted on (idle semaphore), else a thread is started
\* while there are fewer than max_workers.
adjust_thread_count(p) ==
    IF p.idle > 0 THEN [p EXCEPT !.idle = @ - 1]
    ELSE IF num_threads(p) < max_workers THEN [p EXCEPT !.polling = @ + 1]
    ELSE p

\* executor.submit(execute_task_background, task): the work item goes on the
\* pool's unbounded queue and submit returns; the driver goes on to its next
\* task.
executor_submit ==
    /\ pool.submitted < MaxSubmits
    /\ pool' = adjust_thread_count([pool EXCEPT !.queued = @ + 1, !.submitted = @ + 1])
    /\ UNCHANGED Others

\* A pool thread takes the next work item and enters execute_task_background.
execute_task_background_begins ==
    /\ pool.queued > 0
    /\ \/ /\ pool.polling > 0
          /\ pool' = [pool EXCEPT !.polling = @ - 1, !.busy = @ + 1, !.queued = @ - 1]
       \/ /\ pool.waiting > 0
          /\ pool' = [pool EXCEPT !.waiting = @ - 1, !.busy = @ + 1, !.queued = @ - 1]
    /\ UNCHANGED Others

\* A pool thread finds the queue empty, releases the idle semaphore and waits.
pool_thread_waits ==
    /\ pool.queued = 0
    /\ pool.polling > 0
    /\ pool' = [pool EXCEPT !.polling = @ - 1, !.waiting = @ + 1, !.idle = @ + 1]
    /\ UNCHANGED Others

\* execute_task_background returns (or raises into its future): the thread
\* looks at the queue again.
execute_task_background_returns ==
    /\ pool.busy > 0
    /\ pool' = [pool EXCEPT !.busy = @ - 1, !.polling = @ + 1]
    /\ UNCHANGED Others

\* One process_workflow job over a workflow of ASYNC tasks, and its pool.
PoolNext ==
    \/ executor_submit
    \/ execute_task_background_begins
    \/ pool_thread_waits
    \/ execute_task_background_returns

PoolInit == Init /\ use_rq /\ ~use_ray

PoolSpec == PoolInit /\ [][PoolNext]_vars

(* ------------------ DatabaseService, called directly ------------------ *)
\* list_executions(workflow_id, skip, limit): on a miss the page is queried and
\* cached under executions:list:{scope}:{skip}:{limit}, an empty page too.
list_executions(scope) ==
    /\ listCache' = listCache \cup {scope}
    /\ UNCHANGED << use_rq, use_ray, quota, begun, pool, inflight, names, got, workflows, nextWf, tasks, executions, nextExec,
                    wfCache, wtCache, exCache, call, last, answer, ret, run, queue,
                    loop, started, ended, faults >>

ExpireList(scope) ==
    /\ scope \in listCache
    /\ listCache' = listCache \ {scope}
    /\ UNCHANGED << use_rq, use_ray, quota, begun, pool, inflight, names, got, workflows, nextWf, tasks, executions, nextExec,
                    wfCache, wtCache, exCache, call, last, answer, ret, run, queue,
                    loop, started, ended, faults >>

\* create_execution(workflow_id): get_workflow, ValueError when it finds
\* nothing, else the INSERT (refused by the foreign key when the workflow row
\* is gone) and _invalidate_execution_caches(workflow_id).
create_execution(w) ==
    /\ nextExec <= quota
    /\ \E c \in get_workflow(w, wfCache) :
         /\ wfCache' = c.wfc
         /\ IF c.res.kind # "none" /\ w \in workflows
            THEN /\ executions' = [executions EXCEPT ![nextExec] =
                                     [exists |-> TRUE, workflow_id |-> w,
                                      status |-> "pending", started_at |-> nextExec,
                                      completed_at |-> 0]]
                 /\ nextExec' = nextExec + 1
                 /\ listCache' = invalidate_execution_caches(0, exCache, listCache).lists
            ELSE UNCHANGED << executions, nextExec, listCache >>
    /\ UNCHANGED << use_rq, use_ray, quota, begun, pool, inflight, names, got, workflows, nextWf, tasks, wtCache, exCache, call,
                    last, answer, ret, run, queue, loop, started, ended, faults >>

\* PUT /workflows/{id}: update_workflow reads the row with db.get (never the
\* cache), sets the columns, commits and calls _invalidate_workflow_caches.
update_workflow(w) ==
    /\ w \in workflows
    /\ names[w] < MaxNames
    /\ names' = [names EXCEPT ![w] = @ + 1]
    /\ wfCache' = invalidate_workflow_caches(w, wfCache)
    /\ listCache' = invalidate_workflow_lists(w, listCache)
    /\ UNCHANGED << use_rq, use_ray, quota, begun, pool, inflight, ret, got, workflows, nextWf, tasks, executions,
                    nextExec, wtCache, exCache, call, last, answer, run, queue, loop,
                    started, ended, faults >>

\* GET /workflows/{id}: db.get_workflow, 404 when it returns nothing.  got
\* keeps the name the client was given and whether the cache answered.
GetWorkflow(w) ==
    /\ \E c \in get_workflow(w, wfCache) :
         /\ wfCache' = c.wfc
         /\ got' = [id |-> w, found |-> c.res.kind # "none",
                     hit |-> wfCache[w] # << >>,
                     name |-> IF c.res.kind = "none" THEN 0 ELSE c.wfc[w][2],
                     turn |-> 1 - got.turn]
    /\ UNCHANGED << use_rq, use_ray, quota, begun, pool, inflight, ret, names, workflows, nextWf, tasks, executions,
                    nextExec, wtCache, exCache, listCache, call, last, answer, run,
                    queue, loop, started, ended, faults >>

\* get_execution(e) of a second client, in the two steps other clients can
\* come between: the miss on execution:{e} and the db.get of the row ...
StatusRead(e) ==
    /\ e \in Known
    /\ inflight[e] = << >>
    /\ exCache[e] = << >>
    /\ executions[e].exists
    /\ inflight' = [inflight EXCEPT ![e] = << Projection(executions[e]) >>]
    /\ UNCHANGED << use_rq, use_ray, quota, begun, pool, ret, names, got, workflows, nextWf, tasks,
                    executions, nextExec, wfCache, wtCache, exCache, listCache, call,
                    last, answer, run, queue, loop, started, ended, faults >>

\* ... and cache.set(execution:{e}, row) with the row it read, after which
\* GetWorkflowStatus answers from that row.
StatusPopulate(e) ==
    /\ inflight[e] # << >>
    /\ exCache' = [exCache EXCEPT ![e] = inflight[e]]
    /\ inflight' = [inflight EXCEPT ![e] = << >>]
    /\ answer' = [code |-> "OK", id |-> e, status |-> inflight[e][1].status,
                  completed_at |-> inflight[e][1].completed_at,
                  stored |-> executions[e].exists]
    /\ UNCHANGED << use_rq, use_ray, quota, begun, pool, ret, names, got, workflows, nextWf, tasks,
                    executions, nextExec, wfCache, wtCache, listCache, call, last, run,
                    queue, loop, started, ended, faults >>

\* update_execution_status(e, s) called by a client of the service; ret keeps
\* the arguments, whether the call raised, and the list scopes that were
\* cached when it was made.
UpdateStatus(e, s) ==
    /\ e \in Known
    /\ s \in Terminal => executions[e].completed_at < MaxStamps
    /\ LET r == update_execution_status(e, s, executions, exCache, listCache, "none")
       IN /\ executions' = r.executions
          /\ exCache' = r.exCache
          /\ listCache' = r.lists
          /\ ret' = [id |-> e, status |-> s, raised |-> r.raised, lists |-> listCache,
                     turn |-> 1 - ret.turn]
    /\ UNCHANGED << use_rq, use_ray, quota, begun, pool, inflight, names, got, workflows, nextWf, tasks, nextExec, wfCache,
                    wtCache, call, last, answer, run, queue, loop, started, ended,
                    faults >>

Statuses == {"pending", "in_progress", "completed", "failed"}

StoreNext ==
    \/ create_workflow
    \/ \E w \in WfIds : delete_workflow(w)
    \/ \E w \in WfIds : ExpireWorkflow(w)
    \/ \E e \in ExecIds : ExpireExecution(e)
    \/ \E scope \in ListScopes : ExpireList(scope)
    \/ \E scope \in ListScopes : list_executions(scope)
    \/ \E w \in WfIds : create_execution(w)
    \/ \E e \in ExecIds, s \in Statuses : UpdateStatus(e, s)
    \/ \E e \in ExecIds : GetWorkflowStatus(e)
    \/ \E e \in ExecIds : StatusRead(e)
    \/ \E e \in ExecIds : StatusPopulate(e)

\* The REST routes of the workflows, which run in a process of their own.
WorkflowNext ==
    \/ create_workflow
    \/ \E w \in WfIds, t \in TaskInputs : add_task(w, t)
    \/ \E w \in WfIds : update_workflow(w)
    \/ \E w \in WfIds : delete_workflow(w)
    \/ \E w \in WfIds : GetWorkflow(w)
    \/ \E w \in WfIds : ExpireWorkflow(w)

(* ------------------------------- Next --------------------------------- *)
Next ==
    \/ create_workflow
    \/ \E w \in WfIds, t \in TaskInputs : add_task(w, t)
    \/ \E w \in WfIds : delete_workflow(w)
    \/ \E w \in WfIds : ExpireWorkflow(w)
    \/ \E w \in WfIds : ExpireWithTasks(w)
    \/ \E e \in ExecIds : ExpireExecution(e)
    \/ \E w \in WfIds : ExecuteWorkflow(w)
    \/ ExecuteWorkflowUpdate
    \/ ExecuteWorkflowLaunch
    \/ ExecuteWorkflowReturn
    \/ \E e \in ExecIds : GetWorkflowStatus(e)
    \/ \E e \in ExecIds : execute_sync_begin(e)
    \/ \E e \in ExecIds : execute_sync_task(e)
    \/ \E e \in ExecIds : execute_sync_resume(e)
    \/ \E e \in ExecIds : execute_sync_end(e)
    \/ \E e \in ExecIds : execute_sync_except(e)
    \/ \E e \in ExecIds : execute_with_ray_begin(e)
    \/ \E e \in ExecIds : ray_execute_workflow_task(e)
    \/ \E e \in ExecIds : ray_execute_workflow_resume(e)
    \/ \E e \in ExecIds : execute_with_ray_end(e)
    \/ \E e \in ExecIds : execute_with_ray_except(e)
    \/ \E e \in ExecIds : process_workflow_begin(e)
    \/ \E e \in ExecIds : process_workflow_task(e)
    \/ \E e \in ExecIds : process_workflow_resume(e)
    \/ \E e \in ExecIds : process_workflow_end(e)
    \/ \E e \in ExecIds : process_workflow_except(e)
    \/ \E e \in ExecIds : work_horse_exit(e)
    \/ \E e \in ExecIds, t \in TaskInputs : async_task_ends(e, t)

Spec == Init /\ [][Next]_vars

FaultSpec == FaultInit /\ [][Next]_vars

\* The service under a client that calls its methods in any order (no gRPC
\* server: the flags of WorkflowExecutionService play no part).
StoreInit == Init /\ ~use_rq /\ ~use_ray

StoreSpec == StoreInit /\ [][StoreNext]_vars

WorkflowSpec == StoreInit /\ [][WorkflowNext]_vars

(* ------------------------------ claims -------------------------------- *)
Status(e) == executions[e].status

\* C1: in every run, under each backend, the tasks are dispatched in ascending
\* `order`: no task is started or handed off after a task of larger order.
C1_DispatchAscending ==
    \A e \in ExecIds : \A i, j \in 1..Len(started[e]) :
        started[e][i].order < started[e][j].order => i < j

C1_Witness ==
    \E e \in ExecIds :
        /\ Len(started[e]) = 3
        /\ started[e][1].order < started[e][2].order
        /\ started[e][2].order < started[e][3].order

\* C2: while a SYNC task is being executed, it is the last task the run has
\* dispatched and no terminal status has been written for the execution.
C2_SyncBlocks ==
    \A e \in ExecIds : \A k \in 1..Len(started[e]) :
        (started[e][k].execution_type = "sync" /\ started[e][k] \notin ended[e])
            => (k = Len(started[e]) /\ Status(e) \notin Terminal)

C2_Witness ==
    \E e \in ExecIds :
        /\ run[e].pc = "sync"
        /\ Len(started[e]) = 2
        /\ run[e].i < Len(run[e].tasks)
        /\ Status(e) = "in_progress"

\* C3: the driver never waits for a handed-off task: whenever it is inside the
\* task loop (and, on the event loop, is the code running), its next step,
\* dispatching the next task or writing the terminal status, can be taken
\* whatever the state of the ASYNC tasks it has handed off.
DriverStep(e) ==
    \/ execute_sync_task(e) \/ execute_sync_end(e)
    \/ ray_execute_workflow_task(e) \/ execute_with_ray_end(e)
    \/ process_workflow_task(e) \/ process_workflow_end(e)

C3_AsyncNeverBlocks ==
    \A e \in ExecIds :
        (run[e].pc = "loop" /\ (OnEventLoop(e) => loop = Running(e)))
            => ENABLED DriverStep(e)

\* W = [SYNC 1, ASYNC 2, SYNC 3]: task 3 was started and the execution is
\* COMPLETED while task 2 has not finished.
C3_Witness ==
    \E e \in ExecIds :
        /\ Len(started[e]) = 3
        /\ started[e][1].execution_type = "sync"
        /\ started[e][2].execution_type = "async"
        /\ started[e][3].execution_type = "sync"
        /\ started[e][2] \notin ended[e]
        /\ started[e][3] \in ended[e]
        /\ Status(e) = "completed"

\* C4: once a SYNC task of a run has failed, the execution is never COMPLETED
\* (the terminal status written is FAILED) and the run has dispatched no task
\* after it, so none with a larger order.
C4_SyncFailureFails ==
    \A e \in ExecIds : \A k \in 1..Len(started[e]) :
        (/\ started[e][k].execution_type = "sync"
         /\ started[e][k].duration = "bad"
         /\ started[e][k] \in ended[e])
            => /\ Status(e) # "completed"
               /\ k = Len(started[e])
               /\ \A j \in 1..Len(started[e]) : started[e][j].order <= started[e][k].order

C4_Witness ==
    \E e \in ExecIds :
        /\ Len(run[e].tasks) = 3
        /\ Len(started[e]) = 2
        /\ started[e][2].execution_type = "sync"
        /\ started[e][2].duration = "bad"
        /\ started[e][2] \in ended[e]
        /\ run[e].tasks[3].order > started[e][2].order
        /\ run[e].pc = "done"
        /\ Status(e) = "failed"

\* C5: status is monotonic: a persisted COMPLETED or FAILED never changes.
C5_TerminalNeverChanges ==
    [][\A e \in ExecIds :
         (executions[e].status \in Terminal /\ executions'[e].exists)
            => executions'[e].status = executions[e].status]_vars

\* C6: completed_at is set exactly when status is COMPLETED or FAILED, in every
\* row and in every cached projection of a row.
C6_CompletedAtIffTerminal ==
    \A e \in ExecIds :
        /\ executions[e].exists =>
              (executions[e].completed_at # 0 <=> executions[e].status \in Terminal)
        /\ exCache[e] # << >> =>
              (exCache[e][1].completed_at # 0 <=> exCache[e][1].status \in Terminal)

C6_Witness ==
    \E e \in ExecIds :
        /\ executions[e].status = "completed"
        /\ executions[e].completed_at = 1
        /\ started[e] # << >>

\* C7: an execution is created PENDING, the only status changes are
\* PENDING->IN_PROGRESS, IN_PROGRESS->COMPLETED and IN_PROGRESS->FAILED (so
\* IN_PROGRESS is entered once), and no backend run exists, and no task is
\* started, for an execution that is still PENDING.
LifecycleSteps ==
    { << "none", "pending" >>, << "pending", "in_progress" >>,
      << "in_progress", "completed" >>, << "in_progress", "failed" >> }

C7_Lifecycle ==
    /\ [](\A e \in ExecIds :
            Status(e) = "pending" => (run[e] = NoRun /\ started[e] = << >>))
    /\ [][\A e \in ExecIds :
            (executions'[e].exists /\ executions'[e].status # executions[e].status)
               => << executions[e].status, executions'[e].status >> \in LifecycleSteps]_vars

\* C8: when ExecuteWorkflow returns OK, no terminal status has been written for
\* the execution it returns.
C8_ReturnsBeforeTerminal ==
    last.code = "OK" => last.persisted \notin Terminal

\* C9: for a workflow that is in the store while it is submitted,
\* ExecuteWorkflow answers OK with the id of the execution it created (positive)
\* and status "in_progress".
C9_SubmissionSucceeds ==
    (last.code # "none" /\ last.present /\ last.still)
        => /\ last.code = "OK"
           /\ last.id > 0
           /\ last.created
           /\ last.status = "in_progress"

\* the submitted workflow holds a failing SYNC task and the run has FAILED
C9_Witness ==
    /\ last.code = "OK"
    /\ last.id \in ExecIds
    /\ Status(last.id) = "failed"
    /\ \E t \in Range(started[last.id]) : t.duration = "bad"

\* C10: a submission for a workflow id that is not in the store is answered
\* NOT_FOUND, creates no execution and launches no backend.
C10_MissingIsNotFound ==
    (last.code # "none" /\ ~last.present)
        => (last.code = "NOT_FOUND" /\ ~last.created /\ ~last.launched)

\* C11: GetWorkflowStatus for an execution id that has no row in the store
\* (never created, or deleted with its workflow) is answered NOT_FOUND.
C11_UnknownExecutionNotFound ==
    (answer.code # "none" /\ ~answer.stored) => answer.code = "NOT_FOUND"

\* C12: a run of a workflow that has no tasks starts no task, never has FAILED
\* written for its execution, and has COMPLETED persisted when it is over.
C12_EmptyWorkflowCompletes ==
    \A e \in ExecIds :
        (run[e].backend # "none" /\ run[e].wf \in workflows /\ tasks[run[e].wf] = {})
            => /\ started[e] = << >>
               /\ Status(e) # "failed"
               /\ run[e].pc = "done" => Status(e) = "completed"

\* C13: the variants differ in two places: the worker writes FAILED when it
\* finds no workflow (the others return), and the Ray variant writes FAILED a
\* second time when its FAILED write raised (the others stop).  They are
\* equivalent to the caller when neither of these writes ever changes the
\* persisted status.
NoWorkflow(w) == w \notin workflows /\ wfCache[w] = << >> /\ wtCache[w] = << >>

FailedWriteRaised(e) ==
    /\ run[e].pc \in {"except", "except_rollback"}
    /\ ~(run[e].i >= 1 /\ run[e].i > Len(run[e].tasks))

C14_TaskFailureBecomesFailed ==
    \A e \in ExecIds :
        (/\ run[e].pc = "done"
         /\ executions[e].exists
         /\ \E t \in ended[e] : t.execution_type = "sync" /\ t.duration = "bad")
            => Status(e) = "failed"

\* C15: the terminal status of a run does not depend on what its ASYNC tasks
\* do: when a run is over that went through its whole task list (every SYNC
\* task succeeded), its execution is COMPLETED, whether the ASYNC tasks it
\* handed off have ended, failed or are still running.
C15_AsyncOutcomeIrrelevant ==
    \A e \in ExecIds :
        (/\ run[e].pc = "done"
         /\ executions[e].exists
         /\ run[e].i >= 1
         /\ run[e].i > Len(run[e].tasks))
            => Status(e) = "completed"

\* C16: a handed-off ASYNC task is never cancelled: as long as it has not
\* ended it can still end (on the local variant, as soon as the event loop is
\* free), whatever status the execution has been given meanwhile.
C16_AsyncNotCancelled ==
    \A e \in ExecIds : \A t \in Range(started[e]) :
        (t.execution_type # "sync" /\ t \notin ended[e])
            => \/ ENABLED async_task_ends(e, t)
               \/ (run[e].backend = "local" /\ loop # Idle)

\* C17: when process_workflow found no workflow (the only way the worker
\* reaches its except clause before its task loop), its run ends with FAILED
\* and completed_at persisted for the execution.
C17_WorkerMarksFailed ==
    [][\A e \in ExecIds :
         (/\ run[e].backend = "rq"
          /\ run[e].pc = "except"
          /\ run[e].i = 0
          /\ run'[e].pc = "done")
            => (executions'[e].status = "failed" /\ executions'[e].completed_at # 0)]_vars

\* C18: in the local variant a request whose workflow is missing at a lookup
\* has no execution record advanced past PENDING: ExecuteWorkflow's lookup
\* finding nothing leaves the records alone, and when _execute_sync's lookup
\* finds nothing the record its request was answered with had not been
\* advanced.
C18_MissingNeverAdvanced ==
    [][/\ \A w \in WfIds :
            (~use_rq /\ ~use_ray /\ NoWorkflow(w) /\ loop = Idle /\ call = NoCall
                /\ last' # last)
               => executions' = executions
       /\ \A e \in ExecIds :
            (/\ run[e].backend = "local"
             /\ run[e].pc = "scheduled"
             /\ run'[e].pc = "done"
             /\ NoWorkflow(run[e].wf)
             /\ last.code = "OK" /\ last.id = e)
               => last.persisted \in {"none", "pending"}]_vars

\* C19: when update_execution_status(e, s) has returned, neither the key
\* execution:{e} nor any page executions:list:* is cached, and get_execution(e)
\* called next reads the row, whose status is s.
C19_InvalidationRoundTrip ==
    [][(ret'.turn # ret.turn /\ ~ret'.raised)
          => LET e == ret'.id
                 g == get_execution(e, executions', exCache')
             IN /\ exCache'[e] = << >>
                /\ listCache' = {}
                /\ g.res = << Projection(executions'[e]) >>
                /\ g.res[1].status = ret'.status]_vars

C19_Witness ==
    /\ ~ret.raised
    /\ ret.id \in ExecIds
    /\ ret.status = "completed"
    /\ ret.lists = ListScopes
    /\ executions[ret.id].status = "completed"
    /\ exCache[ret.id] = << >>
    /\ listCache = {}

\* C20: a completed write to the definition of workflow w (a task added, the
\* workflow deleted) leaves neither workflow:{w} nor workflow:{w}:with_tasks
\* cached, and no page of executions:list:{w}:* or executions:list:all:*.
C20_WorkflowWriteInvalidates ==
    [][\A w \in WfIds :
         (tasks'[w] # tasks[w] \/ (w \in workflows /\ w \notin workflows'))
            => /\ wfCache'[w] = << >>
               /\ wtCache'[w] = << >>
               /\ listCache' \cap {w, 0} = {}]_vars

\* C21: the key workflow:{id} is written by reads only.  create_workflow
\* leaves it absent; get_workflow of an existing workflow leaves it present
\* with the persisted value and returns that value, never one from before an
\* update; update_workflow removes it; and no step that writes a workflow
\* inserts it.
C21_CachePopulatedByReads ==
    [][/\ nextWf' # nextWf => wfCache'[nextWf] = << >>
       /\ \A w \in WfIds :
            /\ (got'.turn # got.turn /\ got'.id = w /\ w \in workflows)
                  => /\ got'.found
                     /\ got'.name = names[w]
                     /\ wfCache'[w] # << >>
                     /\ wfCache'[w][2] = names[w]
            /\ names'[w] # names[w] => wfCache'[w] = << >>
            /\ (wfCache[w] = << >> /\ wfCache'[w] # << >>)
                  => /\ wfCache'[w][2] = names[w]
                     /\ UNCHANGED << workflows, names, tasks >>]_vars

C21_Witness ==
    /\ got.found /\ ~got.hit
    /\ got.name >= 1
    /\ names[got.id] = got.name
    /\ wfCache[got.id] # << >>
    /\ wfCache[got.id][2] = got.name

\* C22: GetWorkflowStatus is a pure read.  It changes no persisted row
\* (status, completed_at; started_at is assigned once, by create_execution),
\* no run and no other cache key, and the only change it makes is to insert
\* execution:{id}, holding the row, when the key was absent and the row exists.
C22_StatusIsPureRead ==
    [][\A e \in ExecIds :
         GetWorkflowStatus(e)
            => /\ UNCHANGED << executions, workflows, tasks, names, wfCache, wtCache,
                               listCache, run, queue, started, ended >>
               /\ \A x \in ExecIds :
                    exCache'[x] # exCache[x]
                       => /\ x = e
                          /\ exCache[e] = << >>
                          /\ executions[e].exists
                          /\ exCache'[e] = << Projection(executions[e]) >>]_vars

C22_Witness ==
    \E e \in ExecIds :
        /\ answer.code = "OK" /\ answer.id = e
        /\ executions[e].status = "in_progress"
        /\ answer.status = "in_progress"
        /\ exCache[e] = << Projection(executions[e]) >>

\* C23: once the run of a workflow whose tasks all succeeded is over, the
\* execution is COMPLETED and get_execution, hence GetWorkflowStatus, answers
\* "completed", whether or not the status was queried during the run.
C23_SucceedingRunCompletes ==
    \A e \in ExecIds :
        (/\ run[e].pc \in {"done", "exited"}
         /\ executions[e].exists
         /\ run[e].i >= 1 /\ run[e].i > Len(run[e].tasks)
         /\ \A t \in Range(run[e].tasks) : ~TaskFails(t))
            => /\ Status(e) = "completed"
               /\ get_execution(e, executions, exCache).res[1].status = "completed"

\* C24: for a workflow whose only task is a SYNC task that fails, the
\* submission is answered in_progress and, once the backend run that read
\* this task is over, a status query answers "failed" with completed_at set,
\* under every backend.
C24_FailingSyncReportsFailed ==
    \A e \in ExecIds :
        (/\ run[e].pc \in {"done", "exited"}
         /\ run[e].wf \in workflows
         /\ \E t \in TaskInputs :
              IsSync(t) /\ TaskFails(t) /\ tasks[run[e].wf] = {t} /\ run[e].tasks = << t >>)
            => LET g == get_execution(e, executions, exCache).res
               IN /\ (last.id = e /\ last.launched) => last.status = "in_progress"
                  /\ g # << >>
                  /\ g[1].status = "failed"
                  /\ g[1].completed_at # 0

\* C25: when the launch of the backend raises at submission (the enqueue of
\* the queued variant), the caller is answered INTERNAL and the execution
\* record the request created is not left IN_PROGRESS.
C25_FailedLaunchLeavesNoneRunning ==
    [][(call.pc = "in_progress" /\ call' = NoCall)
          => /\ last'.code = "INTERNAL"
             /\ executions'[call.id].status # "in_progress"]_vars

\* C26: when no get_execution is in flight, an entry cached under
\* execution:{id} of an existing execution carries the status and the
\* completed_at of the persisted row.
C26_CacheAgreesWithStore ==
    \A e \in ExecIds :
        (inflight[e] = << >> /\ executions[e].exists /\ exCache[e] # << >>)
            => exCache[e] = << Projection(executions[e]) >>

\* C27: update_execution_status is invoked with a terminal value at most once
\* per execution, so completed_at is assigned at most once.  A run is in its
\* except clause exactly when a terminal write it invoked has raised and it is
\* about to invoke the next one.
C27_OneTerminalWrite ==
    \A e \in ExecIds :
        /\ run[e].pc \notin {"except", "except_rollback"}
        /\ executions[e].completed_at <= 1

\* ---------------------------------------------------------------------
\* update_task: the row of a task of workflow w gets the posted fields.
update_task(w, t, u) ==
    /\ w \in workflows
    /\ t \in tasks[w]
    /\ u \in TaskInputs \ tasks[w]
    /\ tasks' = [tasks EXCEPT ![w] = (@ \ {t}) \cup {u}]
    /\ wfCache' = invalidate_workflow_caches(w, wfCache)
    /\ listCache' = invalidate_workflow_lists(w, listCache)
    /\ UNCHANGED << use_rq, use_ray, quota, begun, pool, inflight, ret, names, got, workflows, nextWf, executions,
                    nextExec, wtCache, exCache, call, last, answer, run, queue, loop, started,
                    ended, faults >>

\* delete_task: the row of a task of workflow w is deleted.
delete_task(w, t) ==
    /\ w \in workflows
    /\ t \in tasks[w]
    /\ tasks' = [tasks EXCEPT ![w] = @ \ {t}]
    /\ wfCache' = invalidate_workflow_caches(w, wfCache)
    /\ listCache' = invalidate_workflow_lists(w, listCache)
    /\ UNCHANGED << use_rq, use_ray, quota, begun, pool, inflight, ret, names, got, workflows, nextWf, executions,
                    nextExec, wtCache, exCache, call, last, answer, run, queue, loop, started,
                    ended, faults >>

\* The gRPC service with its three backends, and the task routes of the REST
\* API editing the workflow while runs are under way.
TaskEditNext ==
    \/ create_workflow
    \/ \E w \in WfIds, t \in TaskInputs : add_task(w, t)
    \/ \E w \in WfIds, t, u \in TaskInputs : update_task(w, t, u)
    \/ \E w \in WfIds, t \in TaskInputs : delete_task(w, t)
    \/ \E w \in WfIds : ExecuteWorkflow(w)
    \/ ExecuteWorkflowUpdate
    \/ ExecuteWorkflowLaunch
    \/ ExecuteWorkflowReturn
    \/ \E w \in WfIds : delete_workflow(w)
    \/ \E e \in ExecIds : execute_sync_begin(e)
    \/ \E e \in ExecIds : execute_sync_task(e)
    \/ \E e \in ExecIds : execute_sync_resume(e)
    \/ \E e \in ExecIds : execute_sync_end(e)
    \/ \E e \in ExecIds : execute_sync_except(e)
    \/ \E e \in ExecIds : execute_with_ray_begin(e)
    \/ \E e \in ExecIds : ray_execute_workflow_task(e)
    \/ \E e \in ExecIds : ray_execute_workflow_resume(e)
    \/ \E e \in ExecIds : execute_with_ray_end(e)
    \/ \E e \in ExecIds : execute_with_ray_except(e)
    \/ \E e \in ExecIds : process_workflow_begin(e)
    \/ \E e \in ExecIds : process_workflow_task(e)
    \/ \E e \in ExecIds : process_workflow_resume(e)
    \/ \E e \in ExecIds : process_workflow_end(e)
    \/ \E e \in ExecIds : process_workflow_except(e)
    \/ \E e \in ExecIds, t \in TaskInputs : async_task_ends(e, t)

TaskEditSpec == Init /\ [][TaskEditNext]_vars

\* ---------------------------------------------------------------------
\* C28: a run works on the task list it loaded with the workflow.  Once the
\* backend has read the workflow, no step (add_task, update_task and
\* delete_task included) changes the list the run walks, and the tasks the
\* run has dispatched are always the first ones of that list, in its order
\* and with its execution modes.
IsPrefix(p, s) ==
    /\ Len(p) <= Len(s)
    /\ \A k \in 1..Len(p) : p[k] = s[k]

C28_RunUsesItsSnapshot ==
    [][\A e \in ExecIds :
          run[e].pc \in {"loop", "sync"}
              => /\ run'[e].tasks = run[e].tasks
                 /\ IsPrefix(started'[e], run[e].tasks)]_vars

\* The run went through exactly the two tasks it had loaded, while the
\* workflow was edited so that it holds neither of them any more.
C28_Witness ==
    \E e \in ExecIds :
        /\ run[e].pc = "done"
        /\ Len(run[e].tasks) = 2
        /\ started[e] = run[e].tasks
        /\ tasks[run[e].wf] # {}
        /\ Range(run[e].tasks) \cap tasks[run[e].wf] = {}

\* ---------------------------------------------------------------------
\* C29: the tasks of one workflow have pairwise distinct `order` values.
C29_OrdersDistinct ==
    \A w \in WfIds :
        \A t, u \in tasks[w] : t # u => t.order # u.order

\* ---------------------------------------------------------------------
\* C30: a task whose execution mode is unspecified is run as a SYNC task:
\* the step that dispatches it leaves the driver waiting for it.
C30_UnspecifiedModeBlocks ==
    [][\A e \in ExecIds :
          \A t \in TaskInputs :
              (started'[e] = Append(started[e], t) /\ t.execution_type = "null")
                  => run'[e].pc = "sync"]_vars

\* ---------------------------------------------------------------------
\* C31: a successful ExecuteWorkflow launches one backend run for its
\* execution id, once.  The response OK is sent with the run of its id in
\* place, on the queued path when use_rq is set, else on the Ray path when
\* use_ray is set, else on the local path; only the queued path puts the id
\* on the queue, and at most once; a run keeps its backend, and once it has
\* begun it is never launched or begun again.
Occurrences(q, e) == Cardinality({ k \in 1..Len(q) : q[k] = e })

C31_OneRunPerRequest ==
    [][/\ (last' # last /\ last'.code = "OK")
            => /\ run'[last'.id].pc # "none"
               /\ run'[last'.id].backend =
                    (IF use_rq THEN "rq" ELSE IF use_ray THEN "ray" ELSE "local")
       /\ \A e \in ExecIds :
            /\ Occurrences(queue', e) <= 1
            /\ Occurrences(queue', e) = 1
                   => (run'[e].backend = "rq" /\ run'[e].pc = "queued")
            /\ run[e].pc # "none"
                   => /\ run'[e].backend = run[e].backend
                      /\ run'[e].wf = run[e].wf
                      /\ run'[e].pc # "none"
            /\ run[e].pc \notin {"none", "queued", "scheduled"}
                   => run'[e].pc \notin {"queued", "scheduled"}]_vars

\* Both flags set: the request was answered OK and its run went through the
\* queued worker, to the end.
C31_Witness ==
    /\ use_rq /\ use_ray
    /\ last.code = "OK"
    /\ run[last.id].backend = "rq"
    /\ run[last.id].pc = "exited"
    /\ started[last.id] # << >>
    /\ queue = << >>

\* ---------------------------------------------------------------------
\* The gRPC service on its local path serving several requests, with REST
\* clients that add tasks only while no request and no run is under way.
Quiet ==
    /\ call = NoCall
    /\ \A e \in ExecIds : run[e].pc \in {"none", "done", "exited"}

EditBetweenRuns(w, t) == Quiet /\ add_task(w, t)

RerunInit == InitCommon /\ faults = 0 /\ quota = MaxExecutions /\ ~use_rq /\ ~use_ray

RerunNext ==
    \/ create_workflow
    \/ \E w \in WfIds, t \in TaskInputs : EditBetweenRuns(w, t)
    \/ \E w \in WfIds : ExecuteWorkflow(w)
    \/ ExecuteWorkflowUpdate
    \/ ExecuteWorkflowLaunch
    \/ ExecuteWorkflowReturn
    \/ \E e \in ExecIds : GetWorkflowStatus(e)
    \/ \E e \in ExecIds : execute_sync_begin(e)
    \/ \E e \in ExecIds : execute_sync_task(e)
    \/ \E e \in ExecIds : execute_sync_resume(e)
    \/ \E e \in ExecIds : execute_sync_end(e)
    \/ \E e \in ExecIds : execute_sync_except(e)
    \/ \E e \in ExecIds, t \in TaskInputs : async_task_ends(e, t)

RerunSpec == RerunInit /\ [][RerunNext]_vars

\* ---------------------------------------------------------------------
\* C32: a run executes the persisted task definitions.  With every task
\* write completed before the request, the task list a run loads when it
\* begins is the list of the task rows of its workflow.
C32_RunLoadsPersistedTasks ==
    [][\A e \in ExecIds :
          (run[e].pc \in {"queued", "scheduled"} /\ run'[e].pc = "loop"
             /\ run'[e].tasks # << >>)
              => run'[e].tasks \in WorkflowTasks(run[e].wf)]_vars

\* ---------------------------------------------------------------------
\* The gRPC service on its local path, with the begin of every handed-off
\* task followed apart from its end.
LocalInit == Init /\ ~use_rq /\ ~use_ray

LocalNext ==
    \/ create_workflow
    \/ \E w \in WfIds, t \in TaskInputs : add_task(w, t)
    \/ \E w \in WfIds : ExecuteWorkflow(w)
    \/ ExecuteWorkflowUpdate
    \/ ExecuteWorkflowLaunch
    \/ ExecuteWorkflowReturn
    \/ \E e \in ExecIds : GetWorkflowStatus(e)
    \/ \E e \in ExecIds : execute_sync_begin(e)
    \/ \E e \in ExecIds : execute_sync_task(e)
    \/ \E e \in ExecIds : execute_sync_resume(e)
    \/ \E e \in ExecIds : execute_sync_end(e)
    \/ \E e \in ExecIds : execute_sync_except(e)
    \/ \E e \in ExecIds, t \in TaskInputs : async_task_begins(e, t)
    \/ \E e \in ExecIds, t \in TaskInputs : async_task_finishes(e, t)

LocalSpec == LocalInit /\ [][LocalNext]_vars

\* ---------------------------------------------------------------------
\* C33: in the local variant the driver gives up the event loop after it
\* has scheduled an ASYNC task, so that when COMPLETED is written for a
\* workflow made of ASYNC tasks only, every one of them has begun to run.
C33_AsyncBegunBeforeCompleted ==
    [][\A e \in ExecIds :
          (/\ run[e].backend = "local"
           /\ run[e].tasks # << >>
           /\ \A t \in Range(run[e].tasks) : t.execution_type = "async"
           /\ executions[e].status # "completed"
           /\ executions'[e].status = "completed")
              => Range(run[e].tasks) \subseteq begun[e]]_vars

\* ---------------------------------------------------------------------
\* C34: in the queued-worker variant at most 10 ASYNC task bodies of a run
\* execute at the same time, and the driver's dispatch of an ASYNC task
\* never waits for a slot: with all 10 threads busy the task is queued in the
\* pool and the driver has passed it.
C34_PoolBoundedAndNonBlocking ==
    [][/\ pool'.busy <= max_workers
       /\ num_threads(pool') <= max_workers
       /\ (pool.submitted < MaxSubmits) => ENABLED executor_submit
       /\ (pool.busy = max_workers /\ pool'.submitted # pool.submitted)
              => /\ pool'.submitted = pool.submitted + 1
                 /\ pool'.queued = pool.queued + 1
                 /\ pool'.busy = pool.busy]_vars

\* All 10 threads are inside a task body and the driver has dispatched two
\* more tasks, which wait in the pool's queue.
C34_Witness ==
    /\ pool.busy = max_workers
    /\ pool.queued = 2
    /\ pool.submitted = max_workers + 2

\* ---------------------------------------------------------------------
\* C35: status queries do not interfere with the writes of a run.  A call
\* update_execution_status(e, s) on an existing execution returns and leaves
\* the row of e with status s, whether its get_execution is served by the
\* database or by a cache entry that an earlier query has populated.
C35_QueriesDoNotInterfere ==
    [][(ret'.turn # ret.turn /\ executions[ret'.id].exists)
          => /\ ~ret'.raised
             /\ executions'[ret'.id].status = ret'.status]_vars

\* ---------------------------------------------------------------------
\* The service with its scheduling: the event loop, the Ray threads and the
\* rq worker keep running what they have been given, so a step of a handler
\* or of a backend run that stays possible is eventually taken.  Clients owe
\* nothing.
RunStep(e) ==
    \/ execute_sync_begin(e) \/ execute_sync_task(e) \/ execute_sync_resume(e)
    \/ execute_sync_end(e) \/ execute_sync_except(e)
    \/ execute_with_ray_begin(e) \/ ray_execute_workflow_task(e)
    \/ ray_execute_workflow_resume(e) \/ execute_with_ray_end(e)
    \/ execute_with_ray_except(e)
    \/ process_workflow_begin(e) \/ process_workflow_task(e)
    \/ process_workflow_resume(e) \/ process_workflow_end(e)
    \/ process_workflow_except(e) \/ work_horse_exit(e)

HandlerStep == ExecuteWorkflowUpdate \/ ExecuteWorkflowLaunch \/ ExecuteWorkflowReturn

Scheduling ==
    /\ WF_vars(HandlerStep)
    /\ \A e \in ExecIds : WF_vars(RunStep(e))

LiveSpec == Init /\ [][Next]_vars /\ Scheduling

\* ---------------------------------------------------------------------
\* C36: no execution stays IN_PROGRESS forever.  With every handler and
\* every backend run scheduled fairly, an execution whose row is IN_PROGRESS
\* is eventually COMPLETED or FAILED, unless its row is deleted with its
\* workflow.
C36_InProgressEnds ==
    \A e \in ExecIds :
        (executions[e].exists /\ executions[e].status = "in_progress")
            ~> (~executions[e].exists \/ executions[e].status \in Terminal)

\* ---------------------------------------------------------------------
\* DatabaseService under a client that creates several executions and
\* writes and reads their statuses in any order.
FrameInit == InitCommon /\ faults = 0 /\ quota = MaxExecutions /\ ~use_rq /\ ~use_ray

FrameNext ==
    \/ create_workflow
    \/ \E w \in WfIds : delete_workflow(w)
    \/ \E w \in WfIds : create_execution(w)
    \/ \E e \in ExecIds, s \in Statuses : UpdateStatus(e, s)
    \/ \E e \in ExecIds : GetWorkflowStatus(e)
    \/ \E e \in ExecIds : ExpireExecution(e)

FrameSpec == FrameInit /\ [][FrameNext]_vars

\* ---------------------------------------------------------------------
\* C37: update_execution_status(e, s) changes only the status and the
\* completed_at of execution e.  The row of e keeps its workflow_id and its
\* started_at, the row of every other execution stays as it is, and a call
\* that raises (e does not exist, among others) changes no row at all.
C37_StatusWriteFrame ==
    [][ret'.turn # ret.turn
          => LET e == ret'.id
             IN /\ \A x \in ExecIds \ {e} : executions'[x] = executions[x]
                /\ executions'[e].exists = executions[e].exists
                /\ executions'[e].workflow_id = executions[e].workflow_id
                /\ executions'[e].started_at = executions[e].started_at
                /\ ~executions[e].exists => ret'.raised
                /\ ret'.raised => executions' = executions]_vars

\* Execution 1 was written COMPLETED by a call that returned, while execution
\* 2 of the same workflow is there with a status and a started_at of its own.
C37_Witness ==
    /\ ret.id = 1 /\ ~ret.raised /\ ret.status = "completed"
    /\ executions[1].exists /\ executions[1].status = "completed"
    /\ executions[1].started_at = 1
    /\ executions[2].exists /\ executions[2].status = "in_progress"
    /\ executions[2].workflow_id = executions[1].workflow_id
    /\ executions[2].started_at = 2

====
